---- MODULE Spec2Model ----
(***************************************************************************)
(* Food delivery dispatch simulation (food_delivery_simulation.py).        *)
(*                                                                         *)
(* The program drives three kinds of generator processes (the arrival      *)
(* generator, one process per order, one delivery process per order)       *)
(* through a discrete-event environment with a capacity-limited rider      *)
(* resource.  The environment's pending events are kept as a sequence of  *)
(* records in the order of the environment's heap key (time, priority,     *)
(* eid); one action fires one event and runs every callback of it to the   *)
(* next suspension point.                                                  *)
(*                                                                         *)
(* Time is integral: the variate stream delivers raw values in 0..MaxRaw   *)
(* (the quantised -ln(1-u)), which expovariate divides by its rate.  The   *)
(* stream of a seed is a fixed but arbitrary sequence: `tape` holds the    *)
(* part of it drawn so far, and a later draw at a position already on the  *)
(* tape returns the same value.                                            *)
(***************************************************************************)
EXTENDS Integers, Sequences, FiniteSets, TLC

\* The horizon, in time units (180 minutes in the program, scaled down).
SIM_TIME == 3
\* The generator creates at most this many orders in a run.
MaxOrders == 4
\* The largest raw variate.
MaxRaw == 2
\* The largest rider count of a configuration.
MaxRiders == 2

RANDOM_SEED == 42
URGENT == 0
NORMAL == 1

RawValues == 0..MaxRaw
OrderIds == 1..MaxOrders

\* The scenarios: rider counts, order rates and mean delivery times, the
\* non-positive ones included.
RiderCounts == 0..MaxRiders
OrderRates == {-1, 0, 1}
DeliveryMeans == {-1, 0, 1, 2}
Configs == [riders : RiderCounts, order_rate : OrderRates, delivery_time_mean : DeliveryMeans]

\* main's scenario table, scaled: A - base case, B - more riders, C - high demand.
Scenarios ==
    <<[riders |-> 1, order_rate |-> 1, delivery_time_mean |-> 2],
      [riders |-> 2, order_rate |-> 1, delivery_time_mean |-> 2],
      [riders |-> 1, order_rate |-> 2, delivery_time_mean |-> 2]>>

\* The number of times the script (main) is executed, one after the other.
MainCalls == 2

\* The scenario of main's k-th call of run_simulation, over all executions.
ScenarioAt(k) == Scenarios[((k - 1) % Len(Scenarios)) + 1]

VARIABLES
    phase,          \* "idle", "running" (inside env.run), "returned" or "raised"
    config,         \* the arguments of the current run_simulation call
    rng,            \* the module-level generator: [seed, pos]
    tape,           \* the stream of RANDOM_SEED as far as it has been drawn
    now,            \* env.now
    queue,          \* env._queue, in the order in which it is popped
    eid,            \* env._eid: the next event id
    users,          \* riders.users (the orders holding a rider)
    put_queue,      \* riders.put_queue (the waiting requests, oldest first)
    order_id,       \* generate_orders' local counter
    ord,            \* per order: the locals of its process_order / deliver_order
    wait_times,     \* system.wait_times
    delivery_times, \* system.delivery_times
    busy_time,      \* system.busy_time
    wait_ids,       \* history: the order of each wait sample
    deliv_ids,      \* history: the order of each delivery sample
    lastFired,      \* history: the event fired by the last step
    results         \* one record per finished run_simulation call

vars == <<phase, config, rng, tape, now, queue, eid, users, put_queue, order_id,
          ord, wait_times, delivery_times, busy_time, wait_ids, deliv_ids,
          lastFired, results>>

NoEvent == [time |-> -1, prio |-> -1, eid |-> -1, kind |-> "none", id |-> 0, err |-> "none"]
NoOrder == [st |-> "none", arrival_time |-> -1, usage_since |-> -1, start |-> -1, dur |-> -1]
NoConfig == [riders |-> 1, order_rate |-> 1, delivery_time_mean |-> 1]

RECURSIVE SumSeq(_)
SumSeq(s) == IF s = <<>> THEN 0 ELSE Head(s) + SumSeq(Tail(s))

\* round(n / d, 2) in hundredths, for n >= 0 and d > 0: round-half-even.
Round2(n, d) ==
    LET q == (100 * n) \div d
        r == (100 * n) % d
    IN IF 2 * r < d THEN q
       ELSE IF 2 * r > d THEN q + 1
       ELSE IF q % 2 = 0 THEN q ELSE q + 1

\* random.expovariate(num/den) on the raw variate: raw / lambd, keeping the sign.
Expovariate(raw, num, den) ==
    IF num > 0 THEN (raw * den) \div num
    ELSE -(((raw * den) + (-num) - 1) \div (-num))

(***************************************************************************)
(* The environment: scheduling and the choice of the next event.           *)
(***************************************************************************)

\* Mutant of Schedule: the delay taken as the absolute trigger time.
ScheduleAbsolute(t, delay, prio, n, kind, id, err) ==
    [time |-> delay, prio |-> prio, eid |-> n, kind |-> kind, id |-> id, err |-> err]

\* env.schedule(event, priority, delay) at time t, with event id n.
Schedule(t, delay, prio, n, kind, id, err) ==
    [time |-> t + delay, prio |-> prio, eid |-> n, kind |-> kind, id |-> id, err |-> err]

\* Mutant of Before: among equal (time, priority) the youngest event first.
BeforeLifo(e, f) ==
    \/ e.time < f.time
    \/ e.time = f.time /\ e.prio < f.prio
    \/ e.time = f.time /\ e.prio = f.prio /\ e.eid > f.eid

\* The heap order of env._queue: (time, priority, eid).
Before(e, f) ==
    \/ e.time < f.time
    \/ e.time = f.time /\ e.prio < f.prio
    \/ e.time = f.time /\ e.prio = f.prio /\ e.eid < f.eid

\* heappush(env._queue, ev): the queue is kept in heap order.
RECURSIVE Push(_, _)
Push(q, ev) ==
    IF q = <<>> THEN <<ev>>
    ELSE IF Before(ev, Head(q)) THEN <<ev>> \o q
    ELSE <<Head(q)>> \o Push(Tail(q), ev)

\* The event heappop(env._queue) returns.
NextEvent == Head(queue)

\* The pending events.
Pending == {queue[k] : k \in DOMAIN queue}

\* Mutant of UntilDelay: the stop event one time unit late.
UntilDelayLate(at, t) == at - t + 1

\* env.run(until=at): the delay of the stop event.
UntilDelay(at, t) == at - t

(***************************************************************************)
(* The rider pool (a Resource of capacity config.riders).                  *)
(***************************************************************************)

\* Mutant of PutCandidate: the youngest request.
PutCandidateLast(pq) == pq[Len(pq)]

\* The request the pool looks at when it is triggered: the oldest one.
PutCandidate(pq) == Head(pq)

\* Mutant of CanGrant: no capacity check.
CanGrantAlways(us, pq) == pq /= <<>>

\* riders._trigger_put: grant the oldest waiting request if a rider is free.
CanGrant(us, pq) == pq /= <<>> /\ Cardinality(us) < config.riders

\* put_queue without the granted request.
AfterGrant(pq) ==
    LET h == PutCandidate(pq)
        i == CHOOSE k \in 1..Len(pq) : pq[k] = h
    IN SubSeq(pq, 1, i - 1) \o SubSeq(pq, i + 1, Len(pq))

(***************************************************************************)
(* The variate source.                                                     *)
(***************************************************************************)

\* The generator after the module-level random.seed(RANDOM_SEED).
ModuleSeed == [seed |-> RANDOM_SEED, pos |-> 1]

\* Mutant of Reseed: run_simulation without its random.seed call.
KeepStream(g) == g

\* run_simulation's random.seed(RANDOM_SEED): back to the start of the stream.
Reseed(g) == [seed |-> RANDOM_SEED, pos |-> 1]

\* One random.random() call, returning raw value r of the seed's stream.
Draw(r) ==
    /\ r \in RawValues
    /\ rng.pos <= Len(tape) => r = tape[rng.pos]
    /\ tape' = IF rng.pos > Len(tape) THEN Append(tape, r) ELSE tape
    /\ rng' = [rng EXCEPT !.pos = @ + 1]

(***************************************************************************)
(* The processes.                                                          *)
(***************************************************************************)

\* generate_orders, from the top of its loop to its yield: the event it
\* leaves behind (its timeout, or its own failure).
GenEvent(r, t, n) ==
    IF config.order_rate = 0
    THEN Schedule(t, 0, NORMAL, n, "gen_proc", 0, "ZeroDivisionError")
    ELSE LET interarrival == Expovariate(r, config.order_rate, 1)
         IN IF interarrival < 0
            THEN Schedule(t, 0, NORMAL, n, "gen_proc", 0, "ValueError")
            ELSE Schedule(t, interarrival, NORMAL, n, "gen_timeout", 0, "none")

\* deliver_order's duration for raw value r (the rate is 1.0 / mean).
DeliveryDuration(r) ==
    IF config.delivery_time_mean > 0
    THEN Expovariate(r, 1, config.delivery_time_mean)
    ELSE Expovariate(r, -1, -config.delivery_time_mean)

\* process_order line 45: the wait of an order granted at time t.
WaitOf(o, t) == t - o.arrival_time

\* Mutant of BusyInterval: measured from the arrival, not from the grant.
BusyFromArrival(o, t) == t - o.arrival_time

\* process_order lines 48-51: the busy interval of an order finishing at t.
BusyInterval(o, t) == t - o.start

\* Mutant of AppendDelivery: the sample is not recorded.
AppendDeliveryDropped(dt, d) == dt

\* deliver_order line 38.
AppendDelivery(dt, d) == Append(dt, d)

\* run_simulation lines 72-84, in hundredths where the code rounds to 2 places.
Metrics ==
    [riders |-> config.riders,
     order_rate |-> config.order_rate,
     avg_wait |-> IF wait_times /= <<>>
                  THEN Round2(SumSeq(wait_times), Len(wait_times)) ELSE 0,
     avg_delivery |-> IF delivery_times /= <<>>
                      THEN Round2(SumSeq(delivery_times), Len(delivery_times)) ELSE 0,
     utilization |-> Round2(busy_time * 100, SIM_TIME * config.riders),
     orders_completed |-> Len(delivery_times)]

NoMetrics ==
    [riders |-> 0, order_rate |-> 0, avg_wait |-> 0, avg_delivery |-> 0,
     utilization |-> 0, orders_completed |-> 0]

\* What a finished call leaves behind.
Outcome(c, status, m) ==
    [config |-> c, status |-> status, metrics |-> m, wait_times |-> wait_times,
     delivery_times |-> delivery_times, busy_time |-> busy_time,
     events |-> eid, end |-> now]

Init ==
    /\ phase = "idle"
    /\ config = NoConfig
    /\ rng = ModuleSeed
    /\ tape = <<>>
    /\ now = 0
    /\ queue = <<>>
    /\ eid = 0
    /\ users = {}
    /\ put_queue = <<>>
    /\ order_id = 0
    /\ ord = [i \in OrderIds |-> NoOrder]
    /\ wait_times = <<>>
    /\ delivery_times = <<>>
    /\ busy_time = 0
    /\ wait_ids = <<>>
    /\ deliv_ids = <<>>
    /\ lastFired = NoEvent
    /\ results = <<>>

\* run_simulation(c.riders, c.order_rate, c.delivery_time_mean), up to the
\* first step of env.run.  A Resource of capacity <= 0 raises ValueError
\* in the constructor, and so does env.run(until) for until <= now.
Start(c) ==
    /\ config' = c
    /\ rng' = Reseed(rng)
    /\ now' = 0
    /\ users' = {}
    /\ put_queue' = <<>>
    /\ order_id' = 0
    /\ ord' = [i \in OrderIds |-> NoOrder]
    /\ wait_times' = <<>>
    /\ delivery_times' = <<>>
    /\ busy_time' = 0
    /\ wait_ids' = <<>>
    /\ deliv_ids' = <<>>
    /\ lastFired' = NoEvent
    /\ IF c.riders <= 0 \/ SIM_TIME <= 0
       THEN /\ phase' = "raised"
            /\ queue' = <<>>
            /\ eid' = 0
            /\ results' = Append(results,
                  [config |-> c, status |-> "ValueError", metrics |-> NoMetrics,
                   wait_times |-> <<>>, delivery_times |-> <<>>, busy_time |-> 0,
                   events |-> 0, end |-> 0])
       ELSE /\ phase' = "running"
            /\ queue' = Push(Push(<<>>, Schedule(0, 0, URGENT, 0, "init_gen", 0, "none")),
                              Schedule(0, UntilDelay(SIM_TIME, 0), URGENT, 1, "until", 0, "none"))
            /\ eid' = 2
            /\ results' = results
    /\ UNCHANGED tape

\* A call of run_simulation with arbitrary arguments.
RunSimulation ==
    /\ phase = "idle"
    /\ \E c \in Configs : Start(c)

\* main's loop over the scenario table: one call per entry of the table, in
\* the table's order, the next call after the one before returned.
RunScenario ==
    /\ phase \in {"idle", "returned"}
    /\ Len(results) < MainCalls * Len(Scenarios)
    /\ Start(ScenarioAt(Len(results) + 1))

\* The part of env.step every event shares: pop, advance the clock.
Fire(e) ==
    /\ now' = e.time
    /\ lastFired' = e

\* Initialize of generate_orders: the generator runs to its first timeout.
InitGen ==
    /\ phase = "running"
    /\ LET e == NextEvent IN
        /\ e.kind = "init_gen"
        /\ Fire(e)
        /\ \E r \in RawValues :
            /\ Draw(r)
            /\ queue' = Push(Tail(queue), GenEvent(r, e.time, eid))
        /\ eid' = eid + 1
    /\ UNCHANGED <<phase, config, users, put_queue, order_id, ord, wait_times,
                   delivery_times, busy_time, wait_ids, deliv_ids, results>>

\* The generator's timeout: a new order process, then the next timeout.
GenTimeout ==
    /\ phase = "running"
    /\ order_id < MaxOrders
    /\ LET e == NextEvent
           id == order_id + 1
       IN
        /\ e.kind = "gen_timeout"
        /\ Fire(e)
        /\ order_id' = id
        /\ ord' = [ord EXCEPT ![id].st = "init"]
        /\ \E r \in RawValues :
            /\ Draw(r)
            /\ queue' = Push(Push(Tail(queue),
                      Schedule(e.time, 0, URGENT, eid, "init_order", id, "none")),
                        GenEvent(r, e.time, eid + 1))
        /\ eid' = eid + 2
    /\ UNCHANGED <<phase, config, users, put_queue, wait_times, delivery_times,
                   busy_time, wait_ids, deliv_ids, results>>

\* Initialize of process_order: record the arrival, request a rider.  The
\* request joins put_queue and the pool is triggered at once.
InitOrder ==
    /\ phase = "running"
    /\ LET e == NextEvent
           id == e.id
           pq == Append(put_queue, id)
           h == PutCandidate(pq)
           ord1 == [ord EXCEPT ![id] = [@ EXCEPT !.st = "waiting", !.arrival_time = e.time]]
       IN
        /\ e.kind = "init_order"
        /\ Fire(e)
        /\ IF CanGrant(users, pq)
           THEN /\ users' = users \cup {h}
                /\ put_queue' = AfterGrant(pq)
                /\ ord' = [ord1 EXCEPT ![h].usage_since = e.time]
                /\ queue' = Push(Tail(queue),
                          Schedule(e.time, 0, NORMAL, eid, "request", h, "none"))
                /\ eid' = eid + 1
           ELSE /\ users' = users
                /\ put_queue' = pq
                /\ ord' = ord1
                /\ queue' = Tail(queue)
                /\ eid' = eid
    /\ UNCHANGED <<phase, config, rng, tape, order_id, wait_times, delivery_times,
                   busy_time, wait_ids, deliv_ids, results>>

\* The granted request: process_order resumes, records its wait and starts
\* the delivery process.
RequestFire ==
    /\ phase = "running"
    /\ LET e == NextEvent
           id == e.id
       IN
        /\ e.kind = "request"
        /\ Fire(e)
        /\ wait_times' = Append(wait_times, WaitOf(ord[id], e.time))
        /\ wait_ids' = Append(wait_ids, id)
        /\ ord' = [ord EXCEPT ![id] = [@ EXCEPT !.st = "serving", !.start = e.time]]
        /\ queue' = Push(Tail(queue),
                  Schedule(e.time, 0, URGENT, eid, "init_deliver", id, "none"))
        /\ eid' = eid + 1
    /\ UNCHANGED <<phase, config, rng, tape, users, put_queue, order_id,
                   delivery_times, busy_time, deliv_ids, results>>

\* Initialize of deliver_order: draw the duration, wait for it.  A zero mean
\* fails in 1.0 / mean before the draw; a negative duration fails in timeout.
InitDeliver ==
    /\ phase = "running"
    /\ LET e == NextEvent
           id == e.id
       IN
        /\ e.kind = "init_deliver"
        /\ Fire(e)
        /\ IF config.delivery_time_mean = 0
           THEN /\ queue' = Push(Tail(queue),
                     Schedule(e.time, 0, NORMAL, eid, "deliver_proc", id, "ZeroDivisionError"))
                /\ ord' = ord
                /\ UNCHANGED <<rng, tape>>
           ELSE \E r \in RawValues :
                /\ Draw(r)
                /\ LET d == DeliveryDuration(r) IN
                    IF d < 0
                    THEN /\ queue' = Push(Tail(queue),
                              Schedule(e.time, 0, NORMAL, eid, "deliver_proc", id, "ValueError"))
                         /\ ord' = [ord EXCEPT ![id].dur = d]
                    ELSE /\ queue' = Push(Tail(queue),
                              Schedule(e.time, d, NORMAL, eid, "deliver_timeout", id, "none"))
                         /\ ord' = [ord EXCEPT ![id].dur = d]
        /\ eid' = eid + 1
    /\ UNCHANGED <<phase, config, users, put_queue, order_id, wait_times,
                   delivery_times, busy_time, wait_ids, deliv_ids, results>>

\* The delivery timeout: deliver_order records its duration and ends.
DeliverTimeout ==
    /\ phase = "running"
    /\ LET e == NextEvent
           id == e.id
       IN
        /\ e.kind = "deliver_timeout"
        /\ Fire(e)
        /\ delivery_times' = AppendDelivery(delivery_times, ord[id].dur)
        /\ deliv_ids' = Append(deliv_ids, id)
        /\ queue' = Push(Tail(queue),
                  Schedule(e.time, 0, NORMAL, eid, "deliver_proc", id, "none"))
        /\ eid' = eid + 1
    /\ UNCHANGED <<phase, config, rng, tape, users, put_queue, order_id, ord,
                   wait_times, busy_time, wait_ids, results>>

\* The end of deliver_order: process_order resumes (or has the failure
\* thrown into it), leaves the with block, which releases the rider, and ends.
DeliverProc ==
    /\ phase = "running"
    /\ LET e == NextEvent
           id == e.id
       IN
        /\ e.kind = "deliver_proc"
        /\ Fire(e)
        /\ busy_time' = IF e.err = "none"
                        THEN busy_time + BusyInterval(ord[id], e.time) ELSE busy_time
        /\ ord' = [ord EXCEPT ![id].st = IF e.err = "none" THEN "done" ELSE "failed"]
        /\ users' = users \ {id}
        /\ queue' = Push(Push(Tail(queue),
                  Schedule(e.time, 0, NORMAL, eid, "release", id, "none")),
                        Schedule(e.time, 0, NORMAL, eid + 1, "order_proc", id, e.err))
        /\ eid' = eid + 2
    /\ UNCHANGED <<phase, config, rng, tape, put_queue, order_id, wait_times,
                   delivery_times, wait_ids, deliv_ids, results>>

\* The release event: its callback triggers the pool.
ReleaseFire ==
    /\ phase = "running"
    /\ LET e == NextEvent
           h == PutCandidate(put_queue)
       IN
        /\ e.kind = "release"
        /\ Fire(e)
        /\ IF CanGrant(users, put_queue)
           THEN /\ users' = users \cup {h}
                /\ put_queue' = AfterGrant(put_queue)
                /\ ord' = [ord EXCEPT ![h].usage_since = e.time]
                /\ queue' = Push(Tail(queue),
                          Schedule(e.time, 0, NORMAL, eid, "request", h, "none"))
                /\ eid' = eid + 1
           ELSE /\ users' = users
                /\ put_queue' = put_queue
                /\ ord' = ord
                /\ queue' = Tail(queue)
                /\ eid' = eid
    /\ UNCHANGED <<phase, config, rng, tape, order_id, wait_times, delivery_times,
                   busy_time, wait_ids, deliv_ids, results>>

\* The end of a process_order that finished: nobody waits for it.
OrderProc ==
    /\ phase = "running"
    /\ LET e == NextEvent IN
        /\ e.kind = "order_proc"
        /\ e.err = "none"
        /\ Fire(e)
        /\ queue' = Tail(queue)
    /\ UNCHANGED <<phase, config, rng, tape, eid, users, put_queue, order_id, ord,
                   wait_times, delivery_times, busy_time, wait_ids, deliv_ids, results>>

\* A failed process nobody waits for (the generator, or an order whose
\* delivery failed): env.step raises, and run_simulation with it.
Crash ==
    /\ phase = "running"
    /\ LET e == NextEvent IN
        /\ e.kind \in {"gen_proc", "order_proc"}
        /\ e.err /= "none"
        /\ Fire(e)
        /\ queue' = Tail(queue)
        /\ phase' = "raised"
        /\ results' = Append(results, [Outcome(config, e.err, NoMetrics) EXCEPT !.end = e.time])
    /\ UNCHANGED <<config, rng, tape, eid, users, put_queue, order_id, ord,
                   wait_times, delivery_times, busy_time, wait_ids, deliv_ids>>

\* The stop event of env.run(until=SIM_TIME): the run ends and
\* run_simulation reduces the accumulators.
Until ==
    /\ phase = "running"
    /\ LET e == NextEvent IN
        /\ e.kind = "until"
        /\ Fire(e)
        /\ queue' = Tail(queue)
        /\ phase' = "returned"
        /\ results' = Append(results, [Outcome(config, "ok", Metrics) EXCEPT !.end = e.time])
    /\ UNCHANGED <<config, rng, tape, eid, users, put_queue, order_id, ord,
                   wait_times, delivery_times, busy_time, wait_ids, deliv_ids>>

\* One step of env.run that does not raise.
Step ==
    \/ InitGen
    \/ GenTimeout
    \/ InitOrder
    \/ RequestFire
    \/ InitDeliver
    \/ DeliverTimeout
    \/ DeliverProc
    \/ ReleaseFire
    \/ OrderProc
    \/ Until

\* One call of run_simulation, with any configuration.
Next ==
    \/ RunSimulation
    \/ Step
    \/ Crash

Spec == Init /\ [][Next]_vars

\* The script: main's calls of run_simulation, one after the other.  Every
\* scenario of the table is valid, so no event of these runs fails.
NextRuns ==
    \/ RunScenario
    \/ Step

SpecRuns == Init /\ [][NextRuns]_vars

(***************************************************************************)
(* Properties.                                                             *)
(***************************************************************************)

InUse == Cardinality(users)

InRun == phase \in {"running", "returned"}

\* The configurations section 7 of the specification accepts.
ValidConfig(c) == c.riders > 0 /\ c.order_rate > 0 /\ c.delivery_time_mean > 0

\* A run of a valid configuration that reached the horizon and was reduced.
Reduced == phase = "returned" /\ ValidConfig(config)

LastResult == results[Len(results)]

\* The release events of the current instant that have not fired yet.
PendingReleases == {e \in Pending : e.kind = "release" /\ e.time = now}

Created(i) == ord[i].arrival_time >= 0

Granted(i) == ord[i].usage_since >= 0

\* C1 as stated: during a run 0 <= in_use <= capacity, and the waiters queue
\* is non-empty only when in_use = capacity.
C1_ResourceInvariantAsStated ==
    (InRun /\ ValidConfig(config)) =>
        /\ 0 <= InUse /\ InUse <= config.riders
        /\ put_queue /= <<>> => InUse = config.riders

\* C1 amended: during a run 0 <= in_use <= capacity, and the waiters queue is
\* non-empty only when in_use = capacity or every free rider is matched by a
\* release event still pending at the current instant, whose firing hands
\* the rider over before the clock advances.
C1_ResourceInvariant ==
    InRun =>
        /\ 0 <= InUse /\ InUse <= config.riders
        /\ put_queue /= <<>> => config.riders - InUse <= Cardinality(PendingReleases)

\* C1 witness: a rider has just been released while an order waits.
C1_Witness ==
    /\ phase = "running"
    /\ ValidConfig(config)
    /\ put_queue /= <<>>
    /\ InUse < config.riders
    /\ PendingReleases /= {}

\* C2: of two orders with different arrival times the later one is never
\* granted a rider while the earlier one is still waiting, and the earlier
\* one is granted no later than the later one.
C2_FifoFairness ==
    \A a, b \in OrderIds :
        (Created(a) /\ Created(b) /\ ord[a].arrival_time < ord[b].arrival_time /\ Granted(b))
            => (Granted(a) /\ ord[a].usage_since <= ord[b].usage_since)

\* C2 witness: two orders that arrived at different times, both waited, both granted.
C2_Witness ==
    \E a, b \in OrderIds :
        /\ Granted(a) /\ Granted(b)
        /\ ord[a].arrival_time < ord[b].arrival_time
        /\ ord[a].usage_since > ord[a].arrival_time
        /\ ord[b].usage_since > ord[b].arrival_time

\* C3 as stated: when the run is reduced, orders_completed = number of wait
\* samples = number of service samples.
C3_ConservationAsStated ==
    Reduced =>
        /\ LastResult.metrics.orders_completed = Len(wait_times)
        /\ Len(wait_times) = Len(delivery_times)

\* C3 amended: when the run is reduced, orders_completed = number of service
\* samples <= number of wait samples, and the wait samples exceed the service
\* samples by exactly the number of orders in service when the run stopped.
C3_Conservation ==
    phase = "returned" =>
        /\ LastResult.metrics.orders_completed = Len(delivery_times)
        /\ Len(delivery_times) <= Len(wait_times)
        /\ Len(wait_times) - Len(delivery_times)
              = Cardinality({i \in OrderIds : ord[i].st = "serving"})

\* C3 witness: a run that stopped with completed orders and an order in service.
C3_Witness ==
    /\ Reduced
    /\ Len(delivery_times) > 0
    /\ Len(wait_times) > Len(delivery_times)

\* The number of samples order i has in a sequence of order ids.
Count(ids, i) == Cardinality({k \in DOMAIN ids : ids[k] = i})

\* The busy time of the orders whose delivery sample was recorded.
RECURSIVE DeliveredBusy(_)
DeliveredBusy(ids) ==
    IF ids = <<>> THEN 0 ELSE ord[Head(ids)].dur + DeliveredBusy(Tail(ids))

\* C4 as stated: an order still waiting or still in service when the run
\* stops at the horizon has no wait sample, no service sample and no busy
\* time in the accumulators.
C4_AbandonmentAsStated ==
    Reduced =>
        /\ \A i \in OrderIds :
              ord[i].st \in {"waiting", "serving"}
                  => Count(wait_ids, i) = 0 /\ Count(deliv_ids, i) = 0
        /\ busy_time = DeliveredBusy(deliv_ids)

\* C4 amended: an order still waiting when the run stops has no sample at
\* all; an order still in service has its wait sample recorded (at the
\* grant) but no service sample; and busy_time holds only the service
\* durations of the orders that completed.
C4_Abandonment ==
    Reduced =>
        /\ \A i \in OrderIds :
              /\ ord[i].st = "waiting"
                    => Count(wait_ids, i) = 0 /\ Count(deliv_ids, i) = 0
              /\ ord[i].st = "serving"
                    => Count(wait_ids, i) = 1 /\ Count(deliv_ids, i) = 0
              /\ Count(deliv_ids, i) = 1 <=> ord[i].st = "done"
        /\ busy_time = DeliveredBusy(deliv_ids)

\* C4 witness: the run stopped with an order waiting, an order in service
\* and an order completed after a wait.
C4_Witness ==
    /\ Reduced
    /\ \E i, j, k \in OrderIds :
          /\ ord[i].st = "waiting"
          /\ ord[j].st = "serving"
          /\ ord[k].st = "done" /\ ord[k].start > ord[k].arrival_time

\* C5: at the end of a run of a valid configuration
\* 0 <= busy_time <= SIM_TIME * riders, and the utilization reported lies
\* between 0 and 100 percent (0 and 10000 hundredths).
C5_UtilizationBound ==
    Reduced =>
        /\ 0 <= busy_time /\ busy_time <= SIM_TIME * config.riders
        /\ 0 <= LastResult.metrics.utilization
        /\ LastResult.metrics.utilization <= 10000

\* C5 witness: a reduced run in which riders were busy and an order waited.
C5_Witness ==
    /\ Reduced
    /\ busy_time > 0
    /\ LastResult.metrics.utilization > 0
    /\ \E i \in OrderIds : ord[i].st = "done" /\ ord[i].start > ord[i].arrival_time

\* C6 as stated: the run fires every event whose trigger time is at or
\* before the horizon and none whose trigger time exceeds it.
C6_HorizonCutoffAsStated ==
    /\ Reduced => \A e \in Pending : e.time > SIM_TIME
    /\ (InRun /\ ValidConfig(config) /\ lastFired.kind \notin {"none", "until"})
          => lastFired.time <= SIM_TIME

\* C6 amended: the run fires every event whose trigger time is strictly
\* before the horizon and no event whose trigger time is at or after it:
\* an arrival or a service completion at exactly the horizon is not fired.
C6_HorizonCutoff ==
    /\ phase = "returned" => \A e \in Pending : e.time >= SIM_TIME
    /\ (InRun /\ lastFired.kind \notin {"none", "until"}) => lastFired.time < SIM_TIME

\* C6 witness: the run stopped with a service completion and the next
\* arrival both scheduled for exactly the horizon.
C6_Witness ==
    /\ Reduced
    /\ \E e, f \in Pending :
          /\ e.kind = "deliver_timeout" /\ e.time = SIM_TIME
          /\ f.kind = "gen_timeout" /\ f.time = SIM_TIME

\* C7 as stated: of the pending events with the same trigger time, the one
\* scheduled first (the smallest event id) fires first.
C7_StableTieBreakAsStated ==
    [][(phase = "running" /\ ValidConfig(config))
          => \A f \in Pending : f.time = lastFired'.time => f.eid >= lastFired'.eid]_vars

\* C7 amended: of the pending events with the same trigger time, those of
\* urgent priority (the start of a newly created process) fire before those
\* of normal priority (timeouts, granted requests, releases, process ends),
\* whichever was scheduled first; events of the same trigger time and
\* priority fire in the order in which they were scheduled.
C7_StableTieBreak ==
    [][phase = "running"
          => \A f \in Pending :
                f.time = lastFired'.time
                    => \/ f.prio > lastFired'.prio
                       \/ f.prio = lastFired'.prio /\ f.eid >= lastFired'.eid]_vars

\* C7 witness: a delivery timeout has fired while the generator's timeout of
\* the same instant, scheduled after it, is still pending.
C7_Witness ==
    /\ phase = "running"
    /\ ValidConfig(config)
    /\ lastFired.kind = "deliver_timeout"
    /\ \E f \in Pending :
          /\ f.kind = "gen_timeout"
          /\ f.time = lastFired.time
          /\ f.eid > lastFired.eid

\* C8: during a run the clock never decreases, every recorded wait is >= 0
\* and every busy interval added to busy_time is >= 0.
C8_MonotonicClock ==
    [][phase = "running"
          => /\ now' >= now
             /\ busy_time' >= busy_time
             /\ \A k \in DOMAIN wait_times' : wait_times'[k] >= 0]_vars

\* C8 witness: the clock has advanced, an order has waited and a rider has
\* been busy.
C8_Witness ==
    /\ InRun
    /\ ValidConfig(config)
    /\ now > 0
    /\ busy_time > 0
    /\ \E k \in DOMAIN wait_times : wait_times[k] > 0

\* C9: two run_simulation calls with the same configuration that both
\* returned, whatever calls were made in between, left the same samples,
\* scheduled the same number of events, ended at the same time and returned
\* the same metrics.
C9_Determinism ==
    \A i, j \in DOMAIN results :
        (results[i].config = results[j].config
            /\ results[i].status = "ok" /\ results[j].status = "ok")
            => results[i] = results[j]

\* C9 witness: the script executed twice, so that the first scenario is run
\* again after the other scenarios, with orders completed and waits recorded.
C9_Witness ==
    /\ Len(results) > Len(Scenarios)
    /\ results[Len(Scenarios) + 1].config = results[1].config
    /\ results[2].config /= results[1].config
    /\ results[Len(Scenarios) + 1].status = "ok"
    /\ results[Len(Scenarios) + 1].metrics.orders_completed > 0
    /\ results[Len(Scenarios) + 1].metrics.avg_wait > 0
    /\ results[2].metrics.orders_completed > 0

\* C10: with a configuration that is not valid the run is rejected before
\* it starts: no event is fired, no order is created and no accumulator is
\* mutated.
C10_InvalidConfigRejected ==
    (phase /= "idle" /\ ~ValidConfig(config)) =>
        /\ lastFired = NoEvent
        /\ order_id = 0
        /\ wait_times = <<>>
        /\ delivery_times = <<>>
        /\ busy_time = 0

\* The orders in service (granted, resumed, delivery not ended).
InService == {i \in OrderIds : ord[i].st = "serving"}

\* The orders that completed.
Completed == {i \in OrderIds : ord[i].st = "done"}

RECURSIVE SumOver(_, _)
SumOver(S, f) ==
    IF S = {} THEN 0
    ELSE LET i == CHOOSE j \in S : TRUE IN f[i] + SumOver(S \ {i}, f)

\* The service time before the horizon of the orders in service at the stop.
PartialBusy == SumOver(InService, [i \in OrderIds |-> SIM_TIME - ord[i].start])

\* The whole service time of the orders that completed.
CompletedBusy == SumOver(Completed, [i \in OrderIds |-> ord[i].dur])

\* C11 as stated: for an order in service when the horizon is reached, the
\* part of its service before the horizon is counted in busy_time, and the
\* order has no record in the wait or service samples.
C11_BoundaryBusyAsStated ==
    Reduced =>
        /\ busy_time = CompletedBusy + PartialBusy
        /\ \A i \in InService : Count(wait_ids, i) = 0 /\ Count(deliv_ids, i) = 0

\* C11 amended: for an order in service when the horizon is reached, no part
\* of its service is counted in busy_time (busy time is added only when a
\* service completes, so busy_time is the service time of the completed
\* orders), its wait sample is in the wait samples, and it has no service
\* sample.
C11_BoundaryBusy ==
    Reduced =>
        /\ busy_time = CompletedBusy
        /\ \A i \in InService : Count(wait_ids, i) = 1 /\ Count(deliv_ids, i) = 0

\* C11 witness: the run stopped with an order part-way through its service
\* and another order completed.
C11_Witness ==
    /\ Reduced
    /\ Completed /= {}
    /\ busy_time > 0
    /\ \E i \in InService : ord[i].start < SIM_TIME /\ ord[i].dur > 0

\* Two finished calls that differ only in a larger rider count for the
\* second: same order rate, same mean delivery time, same horizon and the
\* same seeded stream.
ScaledUp(r, s) ==
    /\ r.status = "ok" /\ s.status = "ok"
    /\ r.config.order_rate = s.config.order_rate
    /\ r.config.delivery_time_mean = s.config.delivery_time_mean
    /\ r.config.riders < s.config.riders

\* C12: of two calls with the same order rate, mean delivery time, horizon
\* and seeded stream, the one with more riders never returns a larger
\* average wait.
C12_Scaling ==
    \A i, j \in DOMAIN results :
        ScaledUp(results[i], results[j])
            => results[j].metrics.avg_wait <= results[i].metrics.avg_wait

\* The step in which an order gives its rider back: the end of deliver_order
\* resumes process_order, which leaves the with block.
ReleaseStep ==
    /\ phase = "running"
    /\ lastFired' /= lastFired
    /\ lastFired'.kind = "deliver_proc"

\* A step in which the pool grants a rider to order i.
GrantStep(i) ==
    /\ phase = "running" /\ phase' = "running"
    /\ i \in users' /\ i \notin users

\* A step in which the granted order i resumes and records its wait.
ResumeStep(i) ==
    /\ phase = "running"
    /\ lastFired' /= lastFired
    /\ lastFired'.kind = "request" /\ lastFired'.id = i

\* A step that moves the clock, or ends the run.
ClockStep == phase = "running" /\ (now' > now \/ phase' = "returned")

Forward ==
    {<<"none", "init">>, <<"init", "waiting">>, <<"waiting", "serving">>,
     <<"serving", "done">>, <<"serving", "failed">>}

\* A step inside one run.
RunStep == phase = "running" /\ phase' \in {"running", "returned", "raised"}

\* The lifecycle moves of C14, the same in the claim and in its amendment:
\* an order moves only forward, one state at a time; its wait is recorded
\* once, in the step that takes it into service, at its grant time; its
\* service time is recorded once, while it is in service, at the time the
\* service ends, and it completes at that same time.
Lifecycle(i) ==
    /\ ord'[i].st = ord[i].st \/ <<ord[i].st, ord'[i].st>> \in Forward
    /\ Count(wait_ids', i) = IF ord'[i].st \in {"serving", "done", "failed"} THEN 1 ELSE 0
    /\ (ord[i].st = "waiting" /\ ord'[i].st = "serving") =>
          /\ now' = ord[i].usage_since
          /\ wait_times' = Append(wait_times, now' - ord[i].arrival_time)
    /\ Count(deliv_ids', i) <= 1
    /\ Count(deliv_ids', i) = 1 => ord'[i].st \in {"serving", "done"}
    /\ ord'[i].st = "done" => Count(deliv_ids', i) = 1
    /\ (Count(deliv_ids, i) = 0 /\ Count(deliv_ids', i) = 1) =>
          /\ now' = ord[i].start + ord[i].dur
          /\ delivery_times' = Append(delivery_times, ord[i].dur)
    /\ (ord[i].st = "serving" /\ ord'[i].st = "done") =>
          now' = ord[i].start + ord[i].dur

\* C14 as stated: every order moves only forward through ARRIVED, WAITING,
\* IN_SERVICE, COMPLETED, its wait is recorded once at the grant and its
\* service time once at the completion, and it holds a rider exactly while
\* it is IN_SERVICE.
C14_LifecycleAsStated ==
    [][(RunStep /\ ValidConfig(config)) =>
          \A i \in OrderIds :
              /\ Lifecycle(i)
              /\ i \in users' <=> ord'[i].st = "serving"]_vars

\* C14 amended: every order moves only forward through ARRIVED, WAITING,
\* IN_SERVICE, COMPLETED (or ends failed when its delivery raises), its wait
\* is recorded once at the grant and its service time once at the
\* completion; it holds a rider whenever it is IN_SERVICE, and otherwise
\* only while it is still WAITING at the instant of its grant, the event
\* that resumes it being scheduled for the current time.
C14_Lifecycle ==
    [][RunStep =>
          \A i \in OrderIds :
              /\ Lifecycle(i)
              /\ ord'[i].st = "serving" => i \in users'
              /\ i \in users' => ord'[i].st \in {"waiting", "serving"}
              /\ (i \in users' /\ ord'[i].st = "waiting") =>
                    /\ ord'[i].usage_since = now'
                    /\ \E e \in {queue'[k] : k \in DOMAIN queue'} :
                          e.kind = "request" /\ e.id = i /\ e.time = now']_vars

\* C14 witness: an order went through the whole lifecycle after having
\* queued, and another one holds a rider while in service.
C14_Witness ==
    /\ phase = "running"
    /\ ValidConfig(config)
    /\ \E i \in Completed :
          /\ ord[i].usage_since > ord[i].arrival_time
          /\ ord[i].dur > 0
          /\ Count(wait_ids, i) = 1 /\ Count(deliv_ids, i) = 1
    /\ \E j \in InService : j \in users

\* The positions of order i in a sequence of order ids.
Places(ids, i) == {k \in DOMAIN ids : ids[k] = i}

Drawn == {i \in OrderIds : ord[i].start >= 0 /\ ord[i].dur >= 0}

\* Order i completed: its service sample is recorded and its rider released.
Finished(i) == i \in Completed /\ Count(deliv_ids, i) = 1 /\ i \notin users

\* C16 as stated: an order granted at time g that drew the delivery time d
\* with g + d within the horizon (g + d <= SIM_TIME) has completed when the
\* run has returned.
C16_CompletionAsStated ==
    (phase = "returned" /\ ValidConfig(config)) =>
        \A i \in Drawn : ord[i].start + ord[i].dur <= SIM_TIME => Finished(i)

\* C16 amended: an order granted at time g that drew the delivery time d
\* has completed when the run has returned if and only if g + d is strictly
\* before the horizon; and while the run goes on the clock never passes
\* g + d with the order still in service.
C16_Completion ==
    /\ phase = "returned" =>
          \A i \in Drawn : ord[i].start + ord[i].dur < SIM_TIME <=> Finished(i)
    /\ phase \in {"running", "returned"} =>
          \A i \in Drawn \cap InService : now <= ord[i].start + ord[i].dur

\* C16 witness: the run returned with an order that queued, was granted
\* after time 0 and completed before the horizon, and an order whose
\* delivery was to end exactly at the horizon.
C16_Witness ==
    /\ phase = "returned"
    /\ ValidConfig(config)
    /\ \E i \in Drawn :
          /\ ord[i].start > ord[i].arrival_time
          /\ ord[i].dur > 0
          /\ ord[i].start + ord[i].dur < SIM_TIME
          /\ Finished(i)
    /\ \E j \in Drawn : ord[j].start + ord[j].dur = SIM_TIME

\* The generator is due to create one order more than this model follows.
Stalled ==
    /\ phase = "running"
    /\ order_id = MaxOrders
    /\ queue /= <<>>
    /\ NextEvent.kind = "gen_timeout"

\* What every step of a run raises: a step takes one event off the queue
\* and schedules k >= 0 new ones, so twice the number of events scheduled
\* so far minus the number of events queued grows by k + 1.
Progress == 2 * eid - Len(queue)

Requested(i) == ord[i].st \notin {"none", "init"}

\* A sequence of order ids in strictly increasing order.
Increasing(ids) == \A k \in 2..Len(ids) : ids[k - 1] < ids[k]

\* C18: the orders created are 1 .. order_id; of two orders the one created
\* first has requested whenever the later one has, and arrived no later;
\* the queued requests are in order_id order and behind every order already
\* granted; the riders were granted in order_id order; and the wait samples
\* were recorded in strictly increasing order_id order.
C18_GrantOrder ==
    phase \in {"running", "returned"} =>
        /\ \A i \in OrderIds : ord[i].st /= "none" <=> i <= order_id
        /\ \A j \in 2..order_id :
              Requested(j) =>
                  /\ Requested(j - 1)
                  /\ ord[j - 1].arrival_time <= ord[j].arrival_time
        /\ \A j \in 2..order_id :
              Granted(j) =>
                  /\ Granted(j - 1)
                  /\ ord[j - 1].usage_since <= ord[j].usage_since
        /\ Increasing(put_queue)
        /\ put_queue /= <<>> =>
              /\ ~Granted(Head(put_queue))
              /\ Head(put_queue) > 1 => Granted(Head(put_queue) - 1)
        /\ Increasing(wait_ids)

\* C18 witness: three orders have recorded their wait, two of them created
\* with a gap of zero, and one of them had to queue.
C18_Witness ==
    /\ phase = "running"
    /\ ValidConfig(config)
    /\ Len(wait_ids) >= 3
    /\ \E k \in DOMAIN wait_ids :
          /\ k > 1
          /\ ord[wait_ids[k]].arrival_time = ord[wait_ids[k - 1]].arrival_time
    /\ \E k \in DOMAIN wait_times : wait_times[k] > 0

\* The orders that recorded a wait and no service time yet.
InProgress == Len(wait_times) - Len(delivery_times)

\* C19: in every reachable state there are no more service samples than
\* wait samples, no more wait samples than orders created, and the wait
\* samples without a service sample are no more than the riders in use,
\* which are no more than the capacity.
C19_SampleGap ==
    phase \in {"running", "returned", "raised"} =>
        /\ Len(delivery_times) <= Len(wait_times)
        /\ Len(wait_times) <= order_id
        /\ InProgress <= InUse
        /\ InUse <= config.riders

\* The same for the valid configurations only.
C19_SampleGapValid ==
    (phase \in {"running", "returned"} /\ ValidConfig(config)) =>
        /\ Len(delivery_times) <= Len(wait_times)
        /\ Len(wait_times) <= order_id
        /\ InProgress <= InUse
        /\ InUse <= config.riders

\* C19 witness: a wait sample without a service sample while another order
\* has both, and a granted order that has not yet recorded its wait.
C19_Witness ==
    /\ phase = "running"
    /\ ValidConfig(config)
    /\ delivery_times /= <<>>
    /\ InProgress >= 1
    /\ InProgress < InUse

====
